---- MODULE Spec2Model ----
(***************************************************************************)
(* Model of the LangGraph coaching agent of src/app.py: the in-memory      *)
(* session table, the seven graph nodes with their routing functions, and  *)
(* the three Flask handlers /agent, /agent/reset and /agent/state; and of  *)
(* the helper call_llm_with_retry, which no handler calls (llm).           *)
(*                                                                         *)
(* Text is modelled as a tuple of one-character strings so that the        *)
(* substring tests of the permission nodes are computed, not assumed.      *)
(* An Optional[...] value is <<>> (None) or <<v>>.                         *)
(***************************************************************************)
EXTENDS Integers, Sequences, FiniteSets, TLC

VARIABLES sessions, pc, rq, trace, st, resp, pre, turns, fails, overlaps,
          serial, keys, llm

vars ==
  <<sessions, pc, rq, trace, st, resp, pre, turns, fails, overlaps,
    serial, keys, llm>>

\* ------------------------------------------------------------------ bounds
\* number of /agent requests that pass validation in one behaviour
MaxTurns == 11

\* number of graph runs that end in an exception in one behaviour
MaxFails == 1

\* number of requests accepted while another request is under way
MaxOverlaps == 1

\* largest max_retries call_llm_with_retry is called with (its default is 3)
MaxRetries == 3

\* the diagnostic gate one question early
DiagnosticQuestionsEarly == 5 - 1

\* the social-analysis gate one question late (count > 3 for count >= 3)
SocialQuestionsLate == 3 + 1

\* questions asked before each phase gate: "if count >= 5", "if count >= 3"
DiagnosticQuestions == 5
SocialQuestions == 3

\* worker threads of the Flask development server (app.run is threaded)
Threads == {1, 2}

\* ------------------------------------------------------------- request data
Users == {"u1", "u2"}
ApiKeys == {"k1"}
\* explicit session_id values a client sends; <<>> is "no session_id key"
SessionIdParams == {<<>>, <<"u1">>}
\* user message bodies
Texts == { <<"H", "m">> }

None == <<>>
Some(v) == <<v>>

\* ------------------------------------------------------------------- text
LowerChar(c) ==
  CASE c = "H" -> "h"
    [] c = "Y" -> "y"
    [] c = "N" -> "n"
    [] OTHER -> c

\* str.lower()
Lower(t) == [i \in 1..Len(t) |-> LowerChar(t[i])]

\* the Python test  w in t  on strings
Contains(w, t) ==
  \E i \in 1..(Len(t) - Len(w) + 1) : SubSeq(t, i, i + Len(w) - 1) = w

\* any(word in last_message for word in words)
AnyWord(words, t) == \E w \in words : Contains(w, t)

StudyYesWords ==
  { <<"y","e","s">>, <<"s","u","r","e">>, <<"o","k","a","y">>, <<"y">>,
    <<"p","l","e","a","s","e">> }
SaveYesWords ==
  { <<"y","e","s">>, <<"s","u","r","e">>, <<"s","a","v","e">>,
    <<"o","k","a","y">>, <<"y">> }
NoWords == { <<"n","o">>, <<"n","o","t">>, <<"s","k","i","p">>, <<"n">> }

\* the skill-gap message without its closing question
SkillGapsTextNoQuestion == <<"g","a","p","s",".">>

\* fixed parts of the assistant messages (the words the handlers can test)
GreetingText == <<"t","o","d","a","y","?">>
DiagnosticDoneText == <<"y","o","u","r"," ","m","a","i","n">>
SkillGapsText == <<"(","y","e","s","/","n","o",")">>
StudyGuideMadeText == <<"p","e","r","f","e","c","t","!">>
StudyGuideSkippedText == <<"n","o"," ","p","r","o","b","l","e","m","!">>
StudyGuideUnclearText == <<"y","e","s"," ","o","r"," ","n","o">>
InsightText == <<"k","e","y"," ","i","n","s","i","g","h","t">>
GoalsText == <<"g","o","a","l","s",":">>
PlanMadeText == <<"s","a","v","e","?"," ","(","y","e","s","/","n","o",")">>
SavedText == <<"s","a","v","e","d","!">>
NotSavedText == <<"g","o","o","d"," ","l","u","c","k">>
SaveUnclearText == <<"(","y","e","s","/","n","o",")","?">>

AIMessage(c) == [role |-> "ai", content |-> c]
HumanMessage(c) == [role |-> "human", content |-> c]

\* ------------------------------------------------- generation collaborator
\* what one call of the chat model can produce: a reply, or an exception
ChatOutputs == { [kind |-> "text", content |-> <<"w","h","y","?">>],
                 [kind |-> "raise"] }

\* what one structured-output call can produce: a candidate object that the
\* schema then validates, no object at all, or an exception
DiagnosticOutputs ==
  { [kind |-> "obj", main_challenge |-> "initiating", confidence_level |-> "high"],
    [kind |-> "obj", main_challenge |-> "anxiety", confidence_level |-> "medium"],
    [kind |-> "obj", main_challenge |-> "anxiety", confidence_level |-> "unsure"],
    [kind |-> "none"], [kind |-> "raise"] }
SocialOutputs ==
  { [kind |-> "obj", skill_gaps |-> <<"listening", "small talk">>, severity |-> "mild"],
    [kind |-> "obj", skill_gaps |-> <<"listening", "small talk", "eye contact">>,
       severity |-> "severe"],
    [kind |-> "raise"] }
StudyGuideOutputs ==
  { [kind |-> "obj", guide_title |-> "guide", days |-> <<3, 3, 4, 3, 3>>],
    [kind |-> "obj", guide_title |-> "guide", days |-> <<3, 3, 4, 3>>],
    [kind |-> "raise"] }
ConversationOutputs ==
  { [kind |-> "obj", recurring_challenge |-> "avoidance"],
    [kind |-> "raise"] }
GoalOutputs ==
  { [kind |-> "obj", goals |-> <<"g1", "g2", "g3">>],
    [kind |-> "obj", goals |-> <<"g1", "g2">>],
    [kind |-> "raise"] }
PlanOutputs ==
  { [kind |-> "obj", plan_title |-> "plan", days |-> <<2, 3, 2, 2, 3>>],
    [kind |-> "obj", plan_title |-> "plan", days |-> <<2, 3, 1, 2, 3>>],
    [kind |-> "obj", plan_title |-> "plan", days |-> <<2, 3, 2, 2>>],
    [kind |-> "raise"] }

\* --------------------------------------------------------- pydantic models
\* a list field with min_items / max_items
LenBetween(s, lo, hi) == Len(s) >= lo /\ Len(s) <= hi

DiagnosticInsightValid(o) == o.confidence_level \in {"low", "medium", "high"}
SocialSkillAnalysisValid(o) == o.severity \in {"mild", "moderate", "significant"}
ConversationInsightValid(o) == TRUE
\* goals declared without min_items
GoalSetValidNoMin(o) == LenBetween(o.goals, 0, 3)

GoalSetValid(o) == LenBetween(o.goals, 3, 3)
ActionPlanValid(o) ==
  /\ LenBetween(o.days, 5, 5)
  /\ \A i \in 1..Len(o.days) : o.days[i] >= 2 /\ o.days[i] <= 3
StudyGuideValid(o) ==
  /\ LenBetween(o.days, 5, 5)
  /\ \A i \in 1..Len(o.days) : o.days[i] >= 3 /\ o.days[i] <= 4

\* the stored object: the candidate without its transport tag
Obj(o) == [f \in (DOMAIN o) \ {"kind"} |-> o[f]]

\* --------------------------------------------------------------- AgentState
Phases ==
  << "diagnostic", "social_analysis", "study_guide_permission",
     "conversation_analysis", "goal_setting", "action_planning",
     "save_permission", "complete" >>

RecordFields ==
  { "diagnostic_insight", "social_analysis", "conversation_insight", "goals",
    "action_plan", "study_guide" }

\* a new session that already counts the greeting as a question
NewSessionCounted(user_id, api_key) ==
  [ messages |-> << AIMessage(GreetingText) >>,
    user_id |-> user_id,
    current_phase |-> "diagnostic",
    diagnostic_count |-> 1,
    social_analysis_count |-> 0,
    api_key |-> api_key,
    diagnostic_insight |-> None,
    social_analysis |-> None,
    conversation_insight |-> None,
    goals |-> None,
    action_plan |-> None,
    study_guide |-> None,
    save_study_guide |-> None,
    save_action_plan |-> None,
    aibrain_doc_id |-> None ]

\* the dict stored for a new session
NewSession(user_id, api_key) ==
  [ messages |-> << AIMessage(GreetingText) >>,
    user_id |-> user_id,
    current_phase |-> "diagnostic",
    diagnostic_count |-> 0,
    social_analysis_count |-> 0,
    api_key |-> api_key,
    diagnostic_insight |-> None,
    social_analysis |-> None,
    conversation_insight |-> None,
    goals |-> None,
    action_plan |-> None,
    study_guide |-> None,
    save_study_guide |-> None,
    save_action_plan |-> None,
    aibrain_doc_id |-> None ]

\* how the graph merges a node's returned dict into the state: messages is
\* Annotated[List, operator.add], every other key keeps the last value written
ApplyUpdate(s, u) ==
  [ f \in DOMAIN s |->
      IF f \in DOMAIN u
        THEN (IF f = "messages" THEN s.messages \o u.messages ELSE u[f])
        ELSE s[f] ]

Last(seq) == seq[Len(seq)]

\* ------------------------------------------------------------ node results
Returned(u) == [ok |-> TRUE, update |-> u]
\* an exception leaves the node; status is the code the handler answers with
\* (400 for a ValueError, 500 for anything else)
Raised(status) == [ok |-> FALSE, status |-> status]

\* a structured-output call whose result the node then dereferences: the call
\* raises, the schema rejects the object, the chain returns None, or it is fine
StructuredFailure(out, valid) ==
  IF out.kind = "raise" THEN Raised(500)
  ELSE IF out.kind = "none" THEN Raised(500)
  ELSE IF ~valid THEN Raised(400)
  ELSE Returned(<<>>)

\* the generation call each node makes in state s, as the set of its outcomes
NoCall == { [kind |-> "nocall"] }

StudyAnswer(s) ==
  LET last_message == Lower(Last(s.messages).content)
  IN IF AnyWord(StudyYesWords, last_message) THEN "yes"
     ELSE IF AnyWord(NoWords, last_message) THEN "no"
     ELSE "unclear"

SaveAnswer(s) ==
  LET last_message == Lower(Last(s.messages).content)
  IN IF AnyWord(SaveYesWords, last_message) THEN "yes"
     ELSE IF AnyWord(NoWords, last_message) THEN "no"
     ELSE "unclear"

CallOutputs(n, s) ==
  CASE n = "diagnostic" ->
         IF s.diagnostic_count >= DiagnosticQuestions
           THEN DiagnosticOutputs ELSE ChatOutputs
    [] n = "social_analysis" ->
         IF s.social_analysis_count >= SocialQuestions
           THEN SocialOutputs ELSE ChatOutputs
    [] n = "study_guide_permission" ->
         IF StudyAnswer(s) = "yes" THEN StudyGuideOutputs ELSE NoCall
    [] n = "conversation_analysis" -> ConversationOutputs
    [] n = "goal_setting" -> GoalOutputs
    [] n = "action_planning" -> PlanOutputs
    [] n = "save_permission" -> NoCall

\* which kind of generation call that is
CallKind(n, s) ==
  IF CallOutputs(n, s) = NoCall THEN "none"
  ELSE IF CallOutputs(n, s) = ChatOutputs THEN "chat"
  ELSE "structured"

\* ------------------------------------------------------------------- nodes
\* the gate branch moves the phase on without returning the insight
diagnostic_node_no_record(s, out) ==
  IF s.api_key = "" THEN Raised(400)
  ELSE IF s.diagnostic_count >= DiagnosticQuestions THEN
    LET f == StructuredFailure(out, out.kind = "obj" /\ DiagnosticInsightValid(out))
    IN IF ~f.ok THEN f
       ELSE Returned([ current_phase |-> "social_analysis",
                       messages |-> << AIMessage(DiagnosticDoneText) >> ])
  ELSE IF out.kind = "raise" THEN Raised(500)
  ELSE Returned([ messages |-> << AIMessage(out.content) >>,
                  diagnostic_count |-> s.diagnostic_count + 1,
                  current_phase |-> "diagnostic" ])

diagnostic_node(s, out) ==
  IF s.api_key = "" THEN Raised(400)
  ELSE IF s.diagnostic_count >= DiagnosticQuestions THEN
    LET f == StructuredFailure(out, out.kind = "obj" /\ DiagnosticInsightValid(out))
    IN IF ~f.ok THEN f
       ELSE Returned([ diagnostic_insight |-> Some(Obj(out)),
                       current_phase |-> "social_analysis",
                       messages |-> << AIMessage(DiagnosticDoneText) >> ])
  ELSE IF out.kind = "raise" THEN Raised(500)
  ELSE Returned([ messages |-> << AIMessage(out.content) >>,
                  diagnostic_count |-> s.diagnostic_count + 1,
                  current_phase |-> "diagnostic" ])

social_analysis_node(s, out) ==
  IF s.api_key = "" THEN Raised(400)
  ELSE IF s.social_analysis_count >= SocialQuestions THEN
    LET f == StructuredFailure(out, out.kind = "obj" /\ SocialSkillAnalysisValid(out))
    IN IF ~f.ok THEN f
       ELSE Returned([ social_analysis |-> Some(Obj(out)),
                       current_phase |-> "study_guide_permission",
                       messages |-> << AIMessage(SkillGapsText) >> ])
  ELSE IF out.kind = "raise" THEN Raised(500)
  ELSE Returned([ messages |-> << AIMessage(out.content) >>,
                  social_analysis_count |-> s.social_analysis_count + 1,
                  current_phase |-> "social_analysis" ])

study_guide_permission_node(s, out) ==
  IF s.api_key = "" THEN Raised(400)
  ELSE IF StudyAnswer(s) = "yes" THEN
    \* the prompt reads state['social_analysis'].skill_gaps before the call
    IF s.social_analysis = None THEN Raised(500)
    ELSE
      LET f == StructuredFailure(out, out.kind = "obj" /\ StudyGuideValid(out))
      IN IF ~f.ok THEN f
         ELSE Returned([ study_guide |-> Some(Obj(out)),
                         save_study_guide |-> Some(TRUE),
                         current_phase |-> "conversation_analysis",
                         messages |-> << AIMessage(StudyGuideMadeText) >> ])
  ELSE IF StudyAnswer(s) = "no" THEN
    Returned([ save_study_guide |-> Some(FALSE),
               current_phase |-> "conversation_analysis",
               messages |-> << AIMessage(StudyGuideSkippedText) >> ])
  ELSE
    Returned([ messages |-> << AIMessage(StudyGuideUnclearText) >>,
               current_phase |-> "study_guide_permission" ])

conversation_analysis_node(s, out) ==
  IF s.api_key = "" THEN Raised(400)
  ELSE
    LET f == StructuredFailure(out, out.kind = "obj" /\ ConversationInsightValid(out))
    IN IF ~f.ok THEN f
       ELSE Returned([ conversation_insight |-> Some(Obj(out)),
                       current_phase |-> "goal_setting",
                       messages |-> << AIMessage(InsightText) >> ])

goal_setting_node(s, out) ==
  IF s.api_key = "" THEN Raised(400)
  \* the prompt reads state['conversation_insight'].recurring_challenge
  ELSE IF s.conversation_insight = None THEN Raised(500)
  ELSE
    LET f == StructuredFailure(out, out.kind = "obj" /\ GoalSetValid(out))
    IN IF ~f.ok THEN f
       ELSE Returned([ goals |-> Some(Obj(out)),
                       current_phase |-> "action_planning",
                       messages |-> << AIMessage(GoalsText) >> ])

action_planning_node(s, out) ==
  IF s.api_key = "" THEN Raised(400)
  \* the prompt reads state['goals'].goals
  ELSE IF s.goals = None THEN Raised(500)
  ELSE
    LET f == StructuredFailure(out, out.kind = "obj" /\ ActionPlanValid(out))
    IN IF ~f.ok THEN f
       ELSE Returned([ action_plan |-> Some(Obj(out)),
                       current_phase |-> "save_permission",
                       messages |-> << AIMessage(PlanMadeText) >> ])

\* the documents save_permission_node writes to the "aibrain" collection when
\* it runs in state s: the Firestore calls are commented out, the id is a
\* literal
aibrain_writes(s) == {}

save_permission_node(s, out) ==
  IF SaveAnswer(s) = "yes" THEN
    Returned([ save_action_plan |-> Some(TRUE),
               aibrain_doc_id |-> Some("mock_doc_id"),
               current_phase |-> "complete",
               messages |-> << AIMessage(SavedText) >> ])
  ELSE IF SaveAnswer(s) = "no" THEN
    Returned([ save_action_plan |-> Some(FALSE),
               current_phase |-> "complete",
               messages |-> << AIMessage(NotSavedText) >> ])
  ELSE
    Returned([ messages |-> << AIMessage(SaveUnclearText) >>,
               current_phase |-> "save_permission" ])

RunNodeFunction(n, s, out) ==
  CASE n = "diagnostic" -> diagnostic_node(s, out)
    [] n = "social_analysis" -> social_analysis_node(s, out)
    [] n = "study_guide_permission" -> study_guide_permission_node(s, out)
    [] n = "conversation_analysis" -> conversation_analysis_node(s, out)
    [] n = "goal_setting" -> goal_setting_node(s, out)
    [] n = "action_planning" -> action_planning_node(s, out)
    [] n = "save_permission" -> save_permission_node(s, out)

\* ----------------------------------------------------------------- routing
END == "__end__"

route_after_diagnostic(s) ==
  IF s.current_phase = "social_analysis" THEN "social_analysis" ELSE END

route_after_social_analysis(s) ==
  IF s.current_phase = "study_guide_permission"
    THEN "study_guide_permission" ELSE END

route_after_study_permission(s) ==
  IF s.current_phase = "conversation_analysis"
    THEN "conversation_analysis" ELSE END

route_after_save_permission(s) ==
  IF s.current_phase = "complete" THEN END ELSE END

\* the graph without the edge goal_setting -> action_planning
NextNodeStopsAfterGoals(n, s) ==
  CASE n = "diagnostic" -> route_after_diagnostic(s)
    [] n = "social_analysis" -> route_after_social_analysis(s)
    [] n = "study_guide_permission" -> route_after_study_permission(s)
    [] n = "conversation_analysis" -> "goal_setting"
    [] n = "goal_setting" -> END
    [] n = "action_planning" -> "save_permission"
    [] n = "save_permission" -> route_after_save_permission(s)

\* the edges of the graph the handler compiles: the node that runs after n
NextNode(n, s) ==
  CASE n = "diagnostic" -> route_after_diagnostic(s)
    [] n = "social_analysis" -> route_after_social_analysis(s)
    [] n = "study_guide_permission" -> route_after_study_permission(s)
    [] n = "conversation_analysis" -> "goal_setting"
    [] n = "goal_setting" -> "action_planning"
    [] n = "action_planning" -> "save_permission"
    [] n = "save_permission" -> route_after_save_permission(s)

NodeNames ==
  { "diagnostic", "social_analysis", "study_guide_permission",
    "conversation_analysis", "goal_setting", "action_planning",
    "save_permission" }

\* the default of the lookup is the last node instead of the first
get_entry_node_last(phase) ==
  IF phase \in NodeNames THEN phase ELSE "save_permission"

\* phase_to_node.get(phase, "diagnostic")
get_entry_node(phase) == IF phase \in NodeNames THEN phase ELSE "diagnostic"

\* ------------------------------------------------------------ request data
\* the JSON body of a POST /agent: "" is a missing or empty value
AgentRequests ==
  [ user_id : Users \cup {""}, api_key : ApiKeys \cup {""},
    message : Texts, session_id : SessionIdParams ]

\* data.get("session_id", user_id)
SessionIdOf(data) ==
  IF data.session_id = None THEN data.user_id ELSE data.session_id[1]

NoRequest == [op |-> "none"]
NoResponse == [status |-> 0]

\* jsonify({"error": ...}), status
ErrorResponse(status) == [status |-> status, error |-> TRUE]

------------------------------------------------------------------------------
\* call_llm_with_retry is not being called
NoLlmCall == [at |-> "off"]

Start ==
  /\ sessions = [k \in {} |-> NewSession("", "")]
  /\ pc = [r \in Threads |-> "idle"]
  /\ rq = [r \in Threads |-> NoRequest]
  /\ trace = [r \in Threads |-> <<>>]
  /\ st = [r \in Threads |-> None]
  /\ resp = [r \in Threads |-> NoResponse]
  /\ pre = [r \in Threads |-> None]
  /\ turns = 0
  /\ fails = 0
  /\ overlaps = 0

\* the development server as the module runs it, app.run(debug=True): one
\* thread per request, requests overlap
Init == Start /\ serial = FALSE /\ keys = {"u1"} /\ llm = NoLlmCall

\* the same application behind a server that takes one request at a time,
\* its clients using two session ids. serial and keys never change: they are
\* the way the server was started and the session ids its clients address
InitSeq == Start /\ serial = TRUE /\ keys = Users /\ llm = NoLlmCall

Quiet == \A r \in Threads : pc[r] = "idle"

\* no response is on its way out. Sending a response touches nothing the
\* handlers share, so it is taken to leave before any other step (Return)
Sent == \A r \in Threads : pc[r] # "reply"

\* the server hands a request to an idle worker; workers are interchangeable,
\* so it is always the first idle one
Accepts(r) ==
  /\ Sent
  /\ pc[r] = "idle"
  /\ ~Quiet => ~serial /\ overlaps < MaxOverlaps
  /\ overlaps' = IF Quiet THEN overlaps ELSE overlaps + 1
  /\ UNCHANGED <<serial, keys, llm>>
  /\ \A q \in Threads : pc[q] = "idle" => r <= q

Reply(r, response) ==
  /\ pc' = [pc EXCEPT ![r] = "reply"]
  /\ resp' = [resp EXCEPT ![r] = response]

\* ------------------------------------------------------------ POST /agent
\* a handler that stores the new session before it validates the request
AgentRejectAfterCreate(r, data) ==
  LET session_id == SessionIdOf(data)
  IN /\ Accepts(r)
     /\ data.user_id = "" \/ data.api_key = ""
     /\ sessions' = [k \in DOMAIN sessions \cup {session_id} |->
                       IF k \in DOMAIN sessions THEN sessions[k]
                       ELSE NewSession(data.user_id, data.api_key)]
     /\ rq' = [rq EXCEPT ![r] = [op |-> "agent", session_id |-> ""]]
     /\ Reply(r, ErrorResponse(400))
     /\ UNCHANGED <<trace, st, pre, turns, fails>>

\* user_id or api_key is missing: 400 before anything is read or written
AgentReject(r, data) ==
  /\ Accepts(r)
  /\ data.user_id = "" \/ data.api_key = ""
  /\ rq' = [rq EXCEPT ![r] = [op |-> "agent", session_id |-> ""]]
  /\ Reply(r, ErrorResponse(400))
  /\ UNCHANGED <<sessions, trace, st, pre, turns, fails>>

\* the session id is not in the table: store a new session, answer the greeting
AgentCreate(r, data) ==
  LET session_id == SessionIdOf(data)
      new == NewSession(data.user_id, data.api_key)
  IN /\ Accepts(r)
     /\ data.user_id # "" /\ data.api_key # ""
     /\ session_id \notin DOMAIN sessions
     /\ turns < MaxTurns
     /\ turns' = turns + 1
     /\ sessions' = [k \in DOMAIN sessions \cup {session_id} |->
                       IF k = session_id THEN new ELSE sessions[k]]
     /\ rq' = [rq EXCEPT ![r] =
                 [op |-> "agent", session_id |-> session_id,
                  user_id |-> data.user_id]]
     /\ Reply(r, [ status |-> 200,
                   message |-> Last(new.messages).content,
                   phase |-> "diagnostic",
                   session_id |-> session_id ])
     /\ UNCHANGED <<trace, st, pre, fails>>

\* the session exists: the handler appends the user message to the stored dict
\* itself, overwrites its api_key and hands the dict to graph.invoke, which
\* copies it into the graph's channels (st); the entry node is the one of the
\* phase the dict holds
AgentBegin(r, data) ==
  LET session_id == SessionIdOf(data)
  IN /\ Accepts(r)
     /\ data.user_id # "" /\ data.api_key # ""
     /\ session_id \in DOMAIN sessions
     /\ turns < MaxTurns
     /\ turns' = turns + 1
     /\ sessions' =
          [sessions EXCEPT
             ![session_id].messages = @ \o << HumanMessage(data.message) >>,
             ![session_id].api_key = data.api_key]
     /\ rq' = [rq EXCEPT ![r] =
                 [op |-> "agent", session_id |-> session_id,
                  user_id |-> data.user_id]]
     /\ pre' = [pre EXCEPT ![r] = Some(sessions[session_id])]
     /\ st' = [st EXCEPT ![r] = Some(sessions'[session_id])]
     /\ pc' = [pc EXCEPT ![r] = "graph"]
     /\ UNCHANGED <<resp, trace, fails>>

\* graph.invoke(state) from node n: the nodes run one after the other on the
\* graph's own copy of the state, each merged into it by ApplyUpdate, until a
\* route leads to END or a node raises. The result is the set of ways the run
\* can end, one for each way the generation calls can answer; steps lists the
\* nodes that ran, each with the kind of call it made and the phase it left
\* behind. A run that raised carries the state it had reached, which the
\* handler never sees.
RECURSIVE RunGraph(_, _, _)
RunGraph(n, s, steps) ==
  UNION { LET res == RunNodeFunction(n, s, out)
          IN IF ~res.ok
               THEN { [ok |-> FALSE, status |-> res.status, state |-> s,
                       trace |-> Append(steps, [node |-> n, call |-> CallKind(n, s),
                                                phase |-> "raised"])] }
               ELSE LET s2 == ApplyUpdate(s, res.update)
                        done == Append(steps, [node |-> n, call |-> CallKind(n, s),
                                               phase |-> s2.current_phase])
                    IN IF NextNode(n, s2) = END
                         THEN { [ok |-> TRUE, state |-> s2, trace |-> done] }
                         ELSE RunGraph(NextNode(n, s2), s2, done)
        : out \in CallOutputs(n, s) }

\* the handler stores what the run had reached when it raised
AgentFailKeepsPartial(r, run) ==
  /\ Reply(r, ErrorResponse(run.status))
  /\ sessions' = [k \in DOMAIN sessions \cup {rq[r].session_id} |->
                    IF k = rq[r].session_id THEN run.state ELSE sessions[k]]
  /\ st' = [st EXCEPT ![r] = None]
  /\ trace' = [trace EXCEPT ![r] = run.trace]
  /\ fails < MaxFails
  /\ fails' = fails + 1
  /\ UNCHANGED <<rq, pre, turns, overlaps, serial, keys, llm>>

\* the handler discards the session of a turn that raised
AgentFailDropsSession(r, run) ==
  /\ Reply(r, ErrorResponse(run.status))
  /\ sessions' = [k \in (DOMAIN sessions) \ {rq[r].session_id} |-> sessions[k]]
  /\ st' = [st EXCEPT ![r] = None]
  /\ trace' = [trace EXCEPT ![r] = run.trace]
  /\ fails < MaxFails
  /\ fails' = fails + 1
  /\ UNCHANGED <<rq, pre, turns, overlaps, serial, keys, llm>>

\* the handler starts the phase's questions again after a turn that raised
AgentFailRestartsPhase(r, run) ==
  /\ Reply(r, ErrorResponse(run.status))
  /\ sessions' = [sessions EXCEPT ![rq[r].session_id].diagnostic_count = 0,
                                  ![rq[r].session_id].social_analysis_count = 0]
  /\ st' = [st EXCEPT ![r] = None]
  /\ trace' = [trace EXCEPT ![r] = run.trace]
  /\ fails < MaxFails
  /\ fails' = fails + 1
  /\ UNCHANGED <<rq, pre, turns, overlaps, serial, keys, llm>>

\* the except clauses around graph.invoke: the result of the run is dropped
\* and an error is answered; the session table is not written
AgentFail(r, run) ==
  /\ Reply(r, ErrorResponse(run.status))
  /\ st' = [st EXCEPT ![r] = None]
  /\ trace' = [trace EXCEPT ![r] = run.trace]
  /\ fails < MaxFails
  /\ fails' = fails + 1
  /\ UNCHANGED <<sessions, rq, pre, turns, overlaps, serial, keys, llm>>

\* the body of the success response
AgentResponse(session_id, result) ==
  [ status |-> 200,
    message |-> Last(result.messages).content,
    phase |-> result.current_phase,
    session_id |-> session_id,
    diagnostic_count |-> result.diagnostic_count,
    social_analysis_count |-> result.social_analysis_count,
    aibrain_doc_id |->
      IF result.current_phase = "complete" THEN result.aibrain_doc_id ELSE None,
    goals |->
      IF result.current_phase = "complete" THEN result.goals ELSE None,
    action_plan |->
      IF result.current_phase = "complete" THEN result.action_plan ELSE None,
    study_guide |->
      IF result.current_phase = "complete" THEN result.study_guide ELSE None ]

\* graph.invoke returned: sessions[session_id] = result, then the response
AgentUpdate(r, run) ==
  LET session_id == rq[r].session_id
      result == run.state
  IN /\ sessions' = [k \in DOMAIN sessions \cup {session_id} |->
                       IF k = session_id THEN result ELSE sessions[k]]
     /\ Reply(r, AgentResponse(session_id, result))
     /\ st' = [st EXCEPT ![r] = Some(result)]
     /\ trace' = [trace EXCEPT ![r] = run.trace]
     /\ UNCHANGED <<rq, pre, turns, fails, overlaps, serial, keys, llm>>

\* the rest of the handler, from graph.invoke to the response. The run works
\* on its own copy of the state, so nothing another request does between the
\* copy (AgentBegin) and this step can change what it computes
AgentFinish(r) ==
  /\ Sent
  /\ pc[r] = "graph"
  /\ \E run \in RunGraph(get_entry_node(st[r][1].current_phase), st[r][1], <<>>) :
       IF run.ok THEN AgentUpdate(r, run) ELSE AgentFail(r, run)

\* a reset that clears the whole table
reset_session_all(r, session_id) ==
  /\ Accepts(r)
  /\ sessions' = [k \in {} |-> sessions[k]]
  /\ rq' = [rq EXCEPT ![r] = [op |-> "reset", session_id |-> session_id]]
  /\ Reply(r, [status |-> 200])
  /\ UNCHANGED <<trace, st, pre, turns, fails>>

\* a reset that answers without deleting
reset_session_keeps(r, session_id) ==
  /\ Accepts(r)
  /\ sessions' = sessions
  /\ rq' = [rq EXCEPT ![r] = [op |-> "reset", session_id |-> session_id]]
  /\ Reply(r, [status |-> 200])
  /\ UNCHANGED <<trace, st, pre, turns, fails>>

\* ------------------------------------------------------ POST /agent/reset
reset_session(r, session_id) ==
  /\ Accepts(r)
  /\ sessions' = [k \in (DOMAIN sessions) \ {session_id} |-> sessions[k]]
  /\ rq' = [rq EXCEPT ![r] = [op |-> "reset", session_id |-> session_id]]
  /\ Reply(r, [status |-> 200])
  /\ UNCHANGED <<trace, st, pre, turns, fails>>

\* ------------------------------------------- GET /agent/state/<session_id>
get_session_state(r, session_id) ==
  /\ Accepts(r)
  /\ rq' = [rq EXCEPT ![r] = [op |-> "state", session_id |-> session_id]]
  /\ Reply(r, IF session_id \in DOMAIN sessions
                THEN LET state == sessions[session_id]
                     IN [ status |-> 200,
                          current_phase |-> state.current_phase,
                          diagnostic_count |-> state.diagnostic_count,
                          social_analysis_count |-> state.social_analysis_count,
                          message_count |-> Len(state.messages),
                          has_diagnostic_insight |-> state.diagnostic_insight # None,
                          has_social_analysis |-> state.social_analysis # None,
                          has_goals |-> state.goals # None,
                          has_action_plan |-> state.action_plan # None ]
                ELSE ErrorResponse(404))
  /\ UNCHANGED <<sessions, trace, st, pre, turns, fails>>

\* the response leaves the server and the worker is idle again
Return(r) ==
  /\ pc[r] = "reply"
  /\ pc' = [pc EXCEPT ![r] = "idle"]
  /\ rq' = [rq EXCEPT ![r] = NoRequest]
  /\ trace' = [trace EXCEPT ![r] = <<>>]
  /\ st' = [st EXCEPT ![r] = None]
  /\ resp' = [resp EXCEPT ![r] = NoResponse]
  /\ pre' = [pre EXCEPT ![r] = None]
  /\ UNCHANGED <<sessions, turns, fails, overlaps, serial, keys, llm>>

------------------------------------------------------------------------------
\* a request arrives and its handler runs up to its first blocking call
Handle(r) ==
  \/ \E data \in AgentRequests : AgentReject(r, data)
  \/ \E data \in AgentRequests :
       SessionIdOf(data) \in keys /\ AgentCreate(r, data)
  \/ \E data \in AgentRequests :
       SessionIdOf(data) \in keys /\ AgentBegin(r, data)
  \/ \E session_id \in keys : reset_session(r, session_id)
  \/ \E session_id \in keys : get_session_state(r, session_id)

\* a handler that is under way takes its next step
Progress(r) ==
  \/ AgentFinish(r)
  \/ Return(r)

Next == \E r \in Threads : Handle(r) \/ Progress(r)

\* requests overlap freely
Spec == Init /\ [][Next]_vars

\* one request at a time
SpecSeq == InitSeq /\ [][Next]_vars

\* one client with one session id, one request at a time
InitLive == Start /\ serial = TRUE /\ keys = {"u1"} /\ llm = NoLlmCall

\* the client sends a message that passes validation
UserTurn ==
  \E r \in Threads : \E data \in AgentRequests :
    /\ SessionIdOf(data) \in keys
    /\ AgentCreate(r, data) \/ AgentBegin(r, data)

\* graph.invoke comes back, with a result or an exception: no handler stays
\* inside it for ever. AgentFinish is enabled whenever a handler is inside it
\* (GraphCanFinish), so this is weak fairness of AgentFinish
GraphReturns == \A r \in Threads : []<>(pc[r] # "graph")

\* the client keeps sending messages whatever else it asks in between (strong
\* fairness: a message can be sent whenever the server is free), every
\* response is sent, and every graph run ends
SpecLive ==
  /\ InitLive
  /\ [][Next]_vars
  /\ SF_vars(UserTurn)
  /\ \A r \in Threads : WF_vars(Return(r))
  /\ GraphReturns

------------------------------------------------------------------------------
\* call_llm_with_retry(messages, temperature, max_tokens, max_retries). llm is
\* the call under way: max_retries, the loop variable attempt, the answers the
\* calls of client.chat.completions.create gave so far (calls), and where the
\* function is: in its loop, returned (value) or raised (exc).

\* str.strip(): the text without its leading and trailing blanks
Strip(t) ==
  LET inked == { i \in 1..Len(t) : t[i] # " " }
  IN IF inked = {} THEN <<>>
     ELSE SubSeq(t, CHOOSE i \in inked : \A j \in inked : i <= j,
                    CHOOSE i \in inked : \A j \in inked : j <= i)

\* what one call of the API can give: a response whose message content is a
\* text or None, an exception that "except Exception" catches, or one it does
\* not catch (KeyboardInterrupt, SystemExit)
LlmAnswers ==
  [kind : {"response"}, content : {Some(<<"H", "i">>), Some(<<" ", "H", "i", " ">>), None}]
    \cup [kind : {"exception"}, exc : {"APIError", "RateLimitError", "APITimeoutError"}]
    \cup [kind : {"interrupt"}, exc : {"KeyboardInterrupt"}]

\* the attempt's try block ends in "return": the call answered and
\* content.strip() could be taken
AttemptReturns(a) == a.kind = "response" /\ a.content # None

\* the exception the attempt's try block ends in: None has no strip()
AttemptException(a) ==
  IF a.kind = "response" THEN "AttributeError" ELSE a.exc

\* the except clause catches it
Caught(a) == a.kind # "interrupt"

\* a loop that never re-raises: the test compares with max_retries
LastAttemptNever(attempt, max_retries) == attempt = max_retries

\* "if attempt == max_retries - 1"
LastAttempt(attempt, max_retries) == attempt = max_retries - 1

\* the handlers' variables, which the helper does not touch
web == <<sessions, pc, rq, trace, st, resp, pre, turns, fails, overlaps, serial, keys>>

\* the function is entered with some max_retries
InitRetry ==
  /\ Start /\ serial = TRUE /\ keys = {}
  /\ llm \in [ at : {"loop"}, max_retries : 0..MaxRetries, attempt : {0},
               calls : {<<>>}, value : {None}, exc : {None} ]

\* one pass of "for attempt in range(max_retries)": the call, then return,
\* re-raise or continue
LlmAttempt ==
  /\ llm.at = "loop"
  /\ llm.attempt < llm.max_retries
  /\ \E a \in LlmAnswers :
       LET made == [llm EXCEPT !.calls = @ \o <<a>>]
       IN llm' =
            IF AttemptReturns(a)
              THEN [made EXCEPT !.at = "returned", !.value = Some(Strip(a.content[1]))]
            ELSE IF ~Caught(a) \/ LastAttempt(llm.attempt, llm.max_retries)
              THEN [made EXCEPT !.at = "raised", !.exc = Some(AttemptException(a))]
            ELSE [made EXCEPT !.attempt = @ + 1]
  /\ UNCHANGED web

\* range(max_retries) is used up: the "return None" after the loop
LlmGivesUp ==
  /\ llm.at = "loop"
  /\ llm.attempt >= llm.max_retries
  /\ llm' = [llm EXCEPT !.at = "returned", !.value = None]
  /\ UNCHANGED web

NextRetry == LlmAttempt \/ LlmGivesUp

SpecRetry == InitRetry /\ [][NextRetry]_vars

------------------------------------------------------------------------------
\* Properties of the handlers. An /agent turn on an existing session is seen
\* where its response is on its way out: pre[r] is the session as it was stored
\* when the request arrived, trace[r] the nodes that ran.

IsPrefix(a, b) == Len(a) <= Len(b) /\ SubSeq(b, 1, Len(a)) = a

\* thread r has just answered an /agent turn on a session that existed
TurnAnswered(r) == pc[r] = "reply" /\ rq[r].op = "agent" /\ pre[r] # None
TurnFailed(r) == TurnAnswered(r) /\ resp[r].status \in {400, 500}
TurnSucceeded(r) == TurnAnswered(r) /\ resp[r].status = 200

\* the session of r's request as it is stored now, and as it was on arrival
Now(r) == sessions[rq[r].session_id]
Was(r) == pre[r][1]

\* the part of a session claim C1 lists
Progress_(s) ==
  [ f \in RecordFields \cup
          {"messages", "current_phase", "diagnostic_count", "social_analysis_count"}
    |-> s[f] ]

\* C1 (as claimed): after an /agent turn on an existing session in which a
\* generation call raised, the stored session (message log, phase, counters,
\* structured records) is exactly what it was before the request arrived.
C1_FailedTurnLeavesSessionAsItWas ==
  \A r \in Threads :
    TurnFailed(r) /\ rq[r].session_id \in DOMAIN sessions
      => Progress_(Now(r)) = Progress_(Was(r))

\* the call that raised in r's turn was a structured-output call
StructuredCallFailed(r) ==
  /\ TurnFailed(r)
  /\ trace[r] # <<>>
  /\ Last(trace[r]).phase = "raised"
  /\ Last(trace[r]).call = "structured"

\* C2: when a structured-output call fails in an /agent turn, the caller gets
\* an error and the stored session keeps its phase and both counters, every
\* structured record it had (so none that was null is now set, whatever
\* earlier nodes of the turn produced), and gains no assistant message: its
\* log is the old log plus the user message of the turn.
C2_StructuredFailureStoresNothing ==
  \A r \in Threads :
    StructuredCallFailed(r) =>
      /\ resp[r].status \in {400, 500}
      /\ rq[r].session_id \in DOMAIN sessions
      /\ Now(r).current_phase = Was(r).current_phase
      /\ Now(r).diagnostic_count = Was(r).diagnostic_count
      /\ Now(r).social_analysis_count = Was(r).social_analysis_count
      /\ \A f \in RecordFields : Now(r)[f] = Was(r)[f]
      /\ Len(Now(r).messages) = Len(Was(r).messages) + 1
      /\ IsPrefix(Was(r).messages, Now(r).messages)
      /\ Last(Now(r).messages).role = "human"

\* C2 witness: a structured call failed after earlier nodes of the same turn
\* had produced a record that was null before the turn
C2_Witness ==
  \E r \in Threads :
    /\ StructuredCallFailed(r)
    /\ Len(trace[r]) >= 2
    /\ Was(r).social_analysis = None

\* node n ran in r's turn
Ran(r, n) == \E i \in 1..Len(trace[r]) : trace[r][i].node = n

\* C3: a stored diagnostic_insight is non-null only with diagnostic_count at 5
\* or more, a stored social_analysis only with social_analysis_count at 3 or
\* more, and a successful turn that ran a phase's node with the counter at the
\* threshold leaves that phase's record non-null.
C3_RecordOnlyBehindItsGate ==
  /\ \A k \in DOMAIN sessions :
       /\ sessions[k].diagnostic_insight # None => sessions[k].diagnostic_count >= 5
       /\ sessions[k].social_analysis # None => sessions[k].social_analysis_count >= 3
  /\ \A r \in Threads :
       TurnSucceeded(r) =>
         /\ Ran(r, "diagnostic") /\ Was(r).diagnostic_count >= 5
              => st[r][1].diagnostic_insight # None
         /\ Ran(r, "social_analysis") /\ Was(r).social_analysis_count >= 3
              => st[r][1].social_analysis # None

\* C3 witness: a turn that met the diagnostic gate without a record has just
\* stored one, while another request was under way
C3_Witness ==
  \E r \in Threads :
    /\ TurnSucceeded(r)
    /\ Ran(r, "diagnostic")
    /\ Was(r).diagnostic_count >= 5
    /\ Was(r).diagnostic_insight = None
    /\ Now(r).diagnostic_insight # None
    /\ overlaps > 0

\* C4 (as claimed): a structured record that is non-null is the same record
\* after every step in which its session stays in the table.
C4_RecordsAreNeverReplaced ==
  [][ \A k \in (DOMAIN sessions) \cap (DOMAIN sessions') :
        \A f \in RecordFields :
          sessions[k][f] # None => sessions'[k][f] = sessions[k][f] ]_vars

\* thread r stores the result of its turn in this step
Commits(r) == pc[r] = "graph" /\ pc'[r] = "reply" /\ resp'[r].status = 200

\* C5 (as claimed): two turns on one session that overlap leave what running
\* them one after the other leaves, so a turn that stores its result on the
\* session it started from drops nothing stored in the meantime: the log
\* stored before is a prefix of the log stored after.
C5_OverlappingTurnsLoseNothing ==
  [][ \A r \in Threads :
        /\ Commits(r)
        /\ rq[r].session_id \in DOMAIN sessions
        /\ IsPrefix(st[r][1].messages, sessions[rq[r].session_id].messages)
        => IsPrefix(sessions[rq[r].session_id].messages,
                    sessions'[rq[r].session_id].messages) ]_vars

PhaseIndex(p) == CHOOSE i \in 1..Len(Phases) : Phases[i] = p

\* the phases r's turn went through: the stored one, then the one each node
\* that returned left behind
PhasesSeen(r) ==
  << Was(r).current_phase >> \o
  [ i \in 1..Len(SelectSeq(trace[r], LAMBDA t : t.phase # "raised"))
      |-> SelectSeq(trace[r], LAMBDA t : t.phase # "raised")[i].phase ]

\* C7 (as claimed): from one node execution to the next the phase stays or
\* moves to its immediate successor in the fixed order; it never skips a phase
\* and never moves back.
C7_PhaseOnlyAdvancesByOne ==
  \A r \in Threads :
    TurnAnswered(r) =>
      \A i \in 1..(Len(PhasesSeen(r)) - 1) :
        \/ PhaseIndex(PhasesSeen(r)[i + 1]) = PhaseIndex(PhasesSeen(r)[i])
        \/ PhaseIndex(PhasesSeen(r)[i + 1]) = PhaseIndex(PhasesSeen(r)[i]) + 1

\* C8 (as claimed): a turn that leaves the session in its phase does not lower
\* that phase's counter, and after a turn that changed the stored phase both
\* counters are zero.
C8_CountersResetOnPhaseChange ==
  \A r \in Threads :
    TurnSucceeded(r) =>
      IF Now(r).current_phase = Was(r).current_phase
        THEN /\ Now(r).diagnostic_count >= Was(r).diagnostic_count
             /\ Now(r).social_analysis_count >= Was(r).social_analysis_count
        ELSE /\ Now(r).diagnostic_count = 0
             /\ Now(r).social_analysis_count = 0

\* C9: in every stored session and in the state of every graph run, under
\* every interleaving of requests, diagnostic_count <= 5 and
\* social_analysis_count <= 3.
C9_CountersWithinQuestions ==
  /\ \A k \in DOMAIN sessions :
       sessions[k].diagnostic_count <= 5 /\ sessions[k].social_analysis_count <= 3
  /\ \A r \in Threads :
       st[r] # None =>
         st[r][1].diagnostic_count <= 5 /\ st[r][1].social_analysis_count <= 3

\* C9 witness: both counters stand at their number of questions in a session
\* whose turns overlapped
C9_Witness ==
  \E k \in DOMAIN sessions :
    /\ sessions[k].diagnostic_count = 5
    /\ sessions[k].social_analysis_count = 3
    /\ overlaps > 0

\* C10: a session id leaves the table only in a step of /agent/reset for that
\* id; turns that succeed or fail and state queries keep it.
C10_OnlyResetRemovesASession ==
  [][ \A k \in DOMAIN sessions :
        k \notin DOMAIN sessions'
          => \E r \in Threads :
               /\ pc[r] = "idle" /\ pc'[r] = "reply"
               /\ rq'[r] = [op |-> "reset", session_id |-> k] ]_vars

\* C10 witness: a session that has been through a failed turn and several
\* successful ones answers a state query
C10_Witness ==
  \E r \in Threads :
    /\ pc[r] = "reply"
    /\ rq[r].op = "state"
    /\ resp[r].status = 200
    /\ resp[r].message_count >= 5
    /\ fails > 0

\* thread r has just answered an /agent request that passed validation
Validated(r) ==
  /\ pc[r] = "reply"
  /\ rq[r].op = "agent"
  /\ pre[r] # None \/ resp[r].status = 200

HumanCount(log) == Len(SelectSeq(log, LAMBDA m : m.role = "human"))

\* C11 (as claimed): when a validated /agent request is answered, the stored
\* log holds one user message more than before the request, the request that
\* created the session included.
C11_EveryUserMessageIsLogged ==
  \A r \in Threads :
    Validated(r) /\ rq[r].session_id \in DOMAIN sessions
      => HumanCount(Now(r).messages)
           = (IF pre[r] = None THEN 0 ELSE HumanCount(Was(r).messages)) + 1

\* C12 (as claimed): a response carries a non-null aibrain_doc_id only if the
\* turn wrote a document with that id to the persistence collaborator.
C12_DocIdOnlyAfterAWrite ==
  \A r \in Threads :
    TurnSucceeded(r) /\ resp[r].aibrain_doc_id # None
      => resp[r].aibrain_doc_id[1] \in aibrain_writes(st[r][1])

\* the structured extraction of r's turn failed at the gate of phase node n
GateFailed(r, n) ==
  /\ StructuredCallFailed(r)
  /\ Last(trace[r]).node = n
  /\ Len(trace[r]) = 1

\* r's turn started at the gate of the diagnostic / social_analysis phase
AtDiagnosticGate(s) == s.current_phase = "diagnostic" /\ s.diagnostic_count >= 5
AtSocialGate(s) == s.current_phase = "social_analysis" /\ s.social_analysis_count >= 3

\* C13: with one request at a time, after a turn whose structured extraction
\* failed at a phase gate the stored session is still at that gate, so the
\* node the next turn enters makes the structured call again and asks no
\* question; and a turn that starts at a gate and succeeds has run that
\* extraction first, stored the record, left the counter alone and moved the
\* phase on.
C13_FailedGateIsRetried ==
  \A r \in Threads :
    /\ GateFailed(r, "diagnostic") /\ AtDiagnosticGate(Was(r)) =>
         /\ AtDiagnosticGate(Now(r))
         /\ get_entry_node(Now(r).current_phase) = "diagnostic"
         /\ CallKind("diagnostic", Now(r)) = "structured"
    /\ GateFailed(r, "social_analysis") /\ AtSocialGate(Was(r)) =>
         /\ AtSocialGate(Now(r))
         /\ get_entry_node(Now(r).current_phase) = "social_analysis"
         /\ CallKind("social_analysis", Now(r)) = "structured"
    /\ TurnSucceeded(r) /\ AtDiagnosticGate(Was(r)) =>
         /\ trace[r][1].node = "diagnostic" /\ trace[r][1].call = "structured"
         /\ Now(r).diagnostic_insight # None
         /\ Now(r).diagnostic_count = Was(r).diagnostic_count
         /\ Now(r).current_phase # "diagnostic"
    /\ TurnSucceeded(r) /\ AtSocialGate(Was(r)) =>
         /\ trace[r][1].node = "social_analysis" /\ trace[r][1].call = "structured"
         /\ Now(r).social_analysis # None
         /\ Now(r).social_analysis_count = Was(r).social_analysis_count
         /\ Now(r).current_phase # "social_analysis"

\* the last turn on a session with this log left its user message and no
\* answer: it failed
FailedTurnBefore(log) == Last(log).role = "human"

\* C13 witness: a turn at the diagnostic gate failed, and the next turn on the
\* session has made the extraction and stored the record
C13_Witness ==
  \E r \in Threads :
    /\ TurnSucceeded(r)
    /\ AtDiagnosticGate(Was(r))
    /\ FailedTurnBefore(Was(r).messages)
    /\ Was(r).diagnostic_insight = None
    /\ Now(r).diagnostic_insight # None

\* C14 (as claimed): a turn on a session whose stored current_phase names no
\* phase node is answered with an error and runs no node.
C14_UnknownPhaseIsRefused ==
  \A r \in Threads :
    TurnAnswered(r) /\ Was(r).current_phase \notin NodeNames
      => TurnFailed(r) /\ trace[r] = <<>>

\* the list-length bounds of the GoalSet and ActionPlan schemas
GoalsWithinBounds(s) == s.goals # None => Len(s.goals[1].goals) = 3
PlanWithinBounds(s) ==
  s.action_plan # None =>
    /\ Len(s.action_plan[1].days) = 5
    /\ \A i \in 1..Len(s.action_plan[1].days) :
         s.action_plan[1].days[i] \in 2..3

\* C15: every stored goal set has exactly 3 goals and every stored action plan
\* exactly 5 day plans of 2 to 3 tasks each, and a turn that ends in an error
\* (a generation result outside the bounds is one) stores nothing.
C15_StoredListsWithinBounds ==
  [][ /\ \A k \in DOMAIN sessions' :
           GoalsWithinBounds(sessions'[k]) /\ PlanWithinBounds(sessions'[k])
      /\ \A r \in Threads :
           pc[r] = "graph" /\ pc'[r] = "reply" /\ resp'[r].status # 200
             => sessions' = sessions ]_vars

\* C15 witness: a goal set and an action plan are stored by the turn that
\* follows a failed one
C15_Witness ==
  \E r \in Threads :
    /\ TurnSucceeded(r)
    /\ FailedTurnBefore(Was(r).messages)
    /\ Was(r).goals = None /\ Was(r).action_plan = None
    /\ Now(r).goals # None /\ Now(r).action_plan # None

\* C16 (as claimed): every stored social_analysis record has between 3 and 5
\* skill gaps.
C16_SkillGapsBetweenThreeAndFive ==
  \A k \in DOMAIN sessions :
    sessions[k].social_analysis # None =>
      Len(sessions[k].social_analysis[1].skill_gaps) \in 3..5

\* thread r answers, in this step, a validated /agent request for a session
\* id that is not in the table
Creates(r) ==
  /\ pc[r] = "idle" /\ pc'[r] = "reply"
  /\ rq'[r].op = "agent"
  /\ resp'[r].status = 200

\* C17: the request that creates a session stores it in phase 'diagnostic'
\* with both counters 0, every structured record null and a log of exactly
\* one message, the assistant's greeting, and reports phase 'diagnostic'.
C17_NewSessionIsFresh ==
  [][ \A r \in Threads :
        Creates(r) =>
          LET new == sessions'[rq'[r].session_id]
          IN /\ rq'[r].session_id \notin DOMAIN sessions
             /\ new.current_phase = "diagnostic"
             /\ new.diagnostic_count = 0
             /\ new.social_analysis_count = 0
             /\ \A f \in RecordFields : new[f] = None
             /\ new.messages = << AIMessage(GreetingText) >>
             /\ resp'[r].phase = "diagnostic"
             /\ resp'[r].message = GreetingText ]_vars

\* C17 witness: a session id that was reset after some turns has been created
\* again
C17_Witness ==
  \E r \in Threads :
    /\ pc[r] = "reply" /\ rq[r].op = "agent"
    /\ pre[r] = None /\ resp[r].status = 200
    /\ turns >= 3
    /\ Now(r).diagnostic_count = 0
    /\ Len(Now(r).messages) = 1

\* C18 is not stated: the handlers keep no map of completed checkpoints and
\* no table of required fields; a phase gate is a count of questions asked.

\* the session of the one client is complete with its records
Completed ==
  /\ "u1" \in DOMAIN sessions
  /\ sessions["u1"].current_phase = "complete"
  /\ sessions["u1"].diagnostic_insight # None
  /\ sessions["u1"].social_analysis # None
  /\ sessions["u1"].conversation_insight # None
  /\ sessions["u1"].goals # None
  /\ sessions["u1"].action_plan # None

\* the client has reset its session
ResetAnswered == \E r \in Threads : pc[r] = "reply" /\ rq[r].op = "reset"

\* C19: a client that keeps sending messages to its session and never resets
\* it, while generation calls stop failing after finitely many failures,
\* eventually has a session in phase 'complete' with diagnostic_insight,
\* social_analysis, conversation_insight, goals and action_plan non-null.
C19_SessionEventuallyCompletes == <>(Completed \/ ResetAnswered)

\* a handler inside graph.invoke can always come back with a result
GraphCanFinish ==
  \A r \in Threads :
    pc[r] = "graph" =>
      \E run \in RunGraph(get_entry_node(st[r][1].current_phase), st[r][1], <<>>) :
        run.ok

\* C19 witness: the session is complete with its records after a failed turn
\* and without any reset on the way (ten turns and one failure)
C19_Witness == Completed /\ fails > 0 /\ turns = 11 /\ Quiet

\* C20: a step that changes or removes the stored state of a session is a step
\* of an /agent request or an /agent/reset for that session's own key; a
\* request on one key leaves every other session as it was.
C20_OtherSessionsUntouched ==
  [][ \A k \in DOMAIN sessions :
        (k \notin DOMAIN sessions' \/ sessions'[k] # sessions[k])
          => \E r \in Threads :
               /\ pc'[r] # pc[r]
               /\ rq'[r].op \in {"agent", "reset"}
               /\ rq'[r].session_id = k ]_vars

\* C20 witness: one session has been reset while another, which has answered
\* questions, is still stored
C20_Witness ==
  \E r \in Threads :
    /\ pc[r] = "reply" /\ rq[r].op = "reset"
    /\ rq[r].session_id \notin DOMAIN sessions
    /\ \E k \in DOMAIN sessions : sessions[k].diagnostic_count >= 2
    /\ turns >= 5

\* the user message of r's turn: the one the handler appended to the log
UserMessage(r) == Now(r).messages[Len(Was(r).messages) + 1]

\* node n ran in r's turn and made a structured call
Generated(r, n) ==
  \E i \in 1..Len(trace[r]) :
    trace[r][i].node = n /\ trace[r][i].call = "structured"

\* C21 (as claimed): a turn generates a study guide only if the permission
\* question had been asked in an earlier turn and the user message of this
\* turn is affirmative; a turn that asks the question leaves the session in
\* phase 'study_guide_permission' with study_guide null.
C21_StudyGuideWaitsForTheUser ==
  \A r \in Threads :
    TurnSucceeded(r) =>
      /\ Generated(r, "study_guide_permission") =>
           /\ Was(r).current_phase = "study_guide_permission"
           /\ AnyWord(StudyYesWords, Lower(UserMessage(r).content))
      /\ Generated(r, "social_analysis") /\ Was(r).current_phase = "social_analysis" =>
           /\ Now(r).current_phase = "study_guide_permission"
           /\ Now(r).study_guide = None

\* C22 (as claimed): a turn marks the plan saved and completes the session
\* only if the save question had been asked in an earlier turn, so that the
\* user message of this turn answers it: the turn that creates action_plan
\* does not also run save_permission to 'complete'.
C22_SaveWaitsForTheUser ==
  \A r \in Threads :
    TurnSucceeded(r) /\ Ran(r, "save_permission")
      /\ Now(r).current_phase = "complete"
      => /\ Was(r).current_phase = "save_permission"
         /\ ~Ran(r, "action_planning")

\* C23 (as claimed): a successful turn on an existing session adds to the log
\* exactly the user message followed by one assistant message, the one
\* returned to the caller.
C23_OneReplyPerTurn ==
  \A r \in Threads :
    TurnSucceeded(r) =>
      Now(r).messages =
        Was(r).messages \o << UserMessage(r), AIMessage(resp[r].message) >>

\* C24 (as claimed): an /agent request whose user_id is not the one the
\* session was created with leaves the session as it was.
C24_OnlyTheOwnerChangesASession ==
  \A r \in Threads :
    TurnAnswered(r) /\ rq[r].user_id # Was(r).user_id
      => Now(r) = Was(r)

\* the nodes joined by fixed edges, in the order of the edges
Chain ==
  << "conversation_analysis", "goal_setting", "action_planning", "save_permission" >>

\* thread r has just answered an /agent turn in which the graph ran
GraphAnswered(r) == pc[r] = "reply" /\ rq[r].op = "agent" /\ trace[r] # <<>>

\* the position in r's trace of the only run of conversation_analysis
ChainStart(r) ==
  CHOOSE i \in 1..Len(trace[r]) : trace[r][i].node = "conversation_analysis"

RecordsInPhaseOrder(s) ==
  /\ s.action_plan # None => s.goals # None
  /\ s.goals # None => s.conversation_insight # None
  /\ s.study_guide # None \/ s.conversation_insight # None => s.social_analysis # None
  /\ s.social_analysis # None => s.diagnostic_insight # None

\* the prior-phase record node n reads from state s is there
PriorRecordPresent(n, s) ==
  /\ n = "study_guide_permission" /\ StudyAnswer(s) = "yes" => s.social_analysis # None
  /\ n = "goal_setting" => s.conversation_insight # None
  /\ n = "action_planning" => s.goals # None

\* C26: every stored session, and every state a graph run starts from or
\* ends in, has its records in phase order, and in every graph run, however
\* it ends, each node that reads a prior-phase record finds it non-null.
C26_RecordsFollowPhaseOrder ==
  /\ \A k \in DOMAIN sessions : RecordsInPhaseOrder(sessions[k])
  /\ \A r \in Threads :
       /\ st[r] # None => RecordsInPhaseOrder(st[r][1])
       /\ pc[r] = "graph" =>
            \A run \in RunGraph(get_entry_node(st[r][1].current_phase), st[r][1], <<>>) :
              /\ RecordsInPhaseOrder(run.state)
              /\ ~run.ok => PriorRecordPresent(Last(run.trace).node, run.state)

\* C26 witness: a stored session holds all six records after requests
\* overlapped
C26_Witness ==
  \E k \in DOMAIN sessions :
    /\ \A f \in RecordFields : sessions[k][f] # None
    /\ overlaps > 0
    /\ Quiet

\* thread r has just answered a reset of session id k
ResetReturned(r, k) ==
  pc[r] = "reply" /\ rq[r] = [op |-> "reset", session_id |-> k]

\* C27: a session id enters the table only in the step of an /agent request
\* that arrives and finds it missing; in particular a turn that was under way
\* when the id was reset does not put the session back.
C27_ResetSessionStaysDeleted ==
  [][ \A k \in Users :
        k \notin DOMAIN sessions /\ k \in DOMAIN sessions'
          => \E r \in Threads : Creates(r) /\ rq'[r].session_id = k ]_vars

\* C28: a reset answers 200 and leaves the table without the session id and
\* otherwise as it was, so a reset of an id that is not there changes
\* nothing; while the reset is being answered the id is not in the table;
\* and an accepted /agent request for an id that is not in the table stores a
\* fresh session under it and answers the greeting in phase 'diagnostic'.
C28_ResetThenCreateIsFresh ==
  /\ [](\A r \in Threads, k \in Users : ResetReturned(r, k) => k \notin DOMAIN sessions)
  /\ [][ \A r \in Threads :
           /\ pc[r] = "idle" /\ pc'[r] # "idle" /\ rq'[r].op = "reset"
                => LET k == rq'[r].session_id
                   IN /\ resp'[r].status = 200
                      /\ pc'[r] = "reply"
                      /\ DOMAIN sessions' = (DOMAIN sessions) \ {k}
                      /\ \A j \in DOMAIN sessions' : sessions'[j] = sessions[j]
                      /\ k \notin DOMAIN sessions => sessions' = sessions
           /\ \A data \in AgentRequests :
                /\ pc[r] = "idle" /\ pc'[r] # "idle" /\ rq'[r].op = "agent"
                /\ data.user_id # "" /\ data.api_key # ""
                /\ rq'[r].session_id = SessionIdOf(data)
                /\ SessionIdOf(data) \notin DOMAIN sessions
                /\ rq'[r].user_id = data.user_id
                => /\ pc'[r] = "reply"
                   /\ sessions'[SessionIdOf(data)] = NewSession(data.user_id, data.api_key)
                   /\ sessions'[SessionIdOf(data)].current_phase = "diagnostic"
                   /\ sessions'[SessionIdOf(data)].messages = << AIMessage(GreetingText) >>
                   /\ \A f \in RecordFields : sessions'[SessionIdOf(data)][f] = None
                   /\ resp'[r] = [ status |-> 200, message |-> GreetingText,
                                   phase |-> "diagnostic",
                                   session_id |-> SessionIdOf(data) ] ]_vars

\* C28 witness: after a failed turn and enough turns for a session to have
\* left its first phase, a request has created the only session of the
\* table, every earlier one having been reset
C28_Witness ==
  \E r \in Threads :
    /\ pc[r] = "reply" /\ rq[r].op = "agent" /\ resp[r].status = 200
    /\ pre[r] = None
    /\ DOMAIN sessions = {rq[r].session_id}
    /\ sessions[rq[r].session_id].messages = << AIMessage(GreetingText) >>
    /\ turns >= DiagnosticQuestions + 3
    /\ fails > 0

\* C29: the handler's step for a request without user_id or without api_key
\* answers 400 with an error and leaves the session table, and every turn
\* under way, as they were; every stored session and every turn under way
\* carries a user_id and an api_key.
C29_MissingFieldsAreRejected ==
  /\ [](\A k \in DOMAIN sessions : sessions[k].user_id # "" /\ sessions[k].api_key # "")
  /\ [](\A r \in Threads : st[r] # None => st[r][1].user_id # "" /\ st[r][1].api_key # "")
  /\ [][ \A r \in Threads, data \in AgentRequests :
           /\ data.user_id = "" \/ data.api_key = ""
           /\ AgentReject(r, data) \/ AgentCreate(r, data) \/ AgentBegin(r, data)
           => /\ resp'[r] = ErrorResponse(400)
              /\ pc'[r] = "reply"
              /\ sessions' = sessions
              /\ st' = st /\ pre' = pre /\ turns' = turns ]_vars

\* C29 witness: a request without its fields has been refused while a turn of
\* a session that has been asked questions was under way
C29_Witness ==
  \E r, q \in Threads :
    /\ pc[r] = "reply" /\ rq[r] = [op |-> "agent", session_id |-> ""]
    /\ resp[r] = ErrorResponse(400)
    /\ pc[q] = "graph"
    /\ rq[q].session_id \in DOMAIN sessions
    /\ sessions[rq[q].session_id].diagnostic_count >= 1

\* C30: a call with max_retries >= 1 never makes more than max_retries
\* attempts; when it has returned, its value is the stripped content of its
\* last attempt, which is the only one that succeeded, and never the default
\* None; when it has raised, no attempt succeeded, the exception is the one of
\* its last attempt, and that attempt was number max_retries unless the
\* exception is one the loop does not catch; and once it has returned or
\* raised it makes no further attempt.
C30_RetriesThenRaises ==
  /\ [](llm.at # "off" /\ llm.max_retries >= 1 =>
          LET n == Len(llm.calls)
          IN /\ n <= llm.max_retries
             /\ \A i \in 1..(n - 1) :
                  ~AttemptReturns(llm.calls[i]) /\ Caught(llm.calls[i])
             /\ llm.at = "returned" =>
                  /\ n >= 1 /\ AttemptReturns(llm.calls[n])
                  /\ llm.value = Some(Strip(llm.calls[n].content[1]))
                  /\ llm.exc = None
             /\ llm.at = "raised" =>
                  /\ n >= 1 /\ ~AttemptReturns(llm.calls[n])
                  /\ llm.exc = Some(AttemptException(llm.calls[n]))
                  /\ llm.value = None
                  /\ n = llm.max_retries \/ ~Caught(llm.calls[n])
             /\ llm.at = "loop" => n = llm.attempt /\ n < llm.max_retries)
  /\ [][ llm.at \in {"returned", "raised"} => llm' = llm ]_vars

\* C30 witness: a call with max_retries 3 failed twice with different
\* exceptions and returned the stripped text of its third attempt
C30_Witness ==
  /\ llm.at = "returned"
  /\ llm.max_retries = 3
  /\ Len(llm.calls) = 3
  /\ llm.calls[1].kind = "exception"
  /\ ~AttemptReturns(llm.calls[2]) /\ AttemptException(llm.calls[2]) # llm.calls[1].exc
  /\ llm.calls[3].content = Some(<<" ", "H", "i", " ">>)
  /\ llm.value = Some(<<"H", "i">>)

====
